---- MODULE Spec2Model ----
(***************************************************************************)
(* A model of the websocket server of src/ServerImpl.hpp and               *)
(* src/details/Connection.hpp: the connection table, the per-connection    *)
(* close / read / write state, the accept coroutine, the worker thread     *)
(* that runs the io_service, the caller threads that post send and drop    *)
(* work, and the thread that calls stop().                                 *)
(*                                                                         *)
(* One step of the worker is one handler run by io_service::run(): a       *)
(* completion handler, a posted task or one resumption of the accept       *)
(* coroutine.  The transport is modelled by the outstanding operations of  *)
(* each socket and their results: an operation is "pending" until the      *)
(* peer or the kernel completes it, and the handler runs afterwards.       *)
(***************************************************************************)
EXTENDS Integers, Sequences, FiniteSets, TLC

\* Bounds of the model.
MaxConn == 1
MaxCalls == 2
MaxMsg == 1

VARIABLES
    conns,          \* id -> Connection (fields, transport operations, history)
    table,          \* ConnectionTable::m_connections (its keys)
    m_lastConnId,   \* ConnectionTable::m_lastConnId
    posted,         \* work posted to the io_service by send / drop, FIFO
    nCalls,         \* number of Server.send and Server.drop calls so far
    acceptPc,       \* position of the acceptLoop coroutine
    acceptorOpen,   \* m_acceptor is open
    m_isStopped,    \* ServerImpl::m_isStopped
    workerPc,       \* position of workerThread
    stopPc,         \* position of the thread inside stop()
    stopTodo,       \* connections closeAll has still to visit
    stopCur,        \* connection closeAll is closing (0: none)
    nNew,           \* id -> NewConnection events delivered
    nMsg,           \* id -> Message events delivered
    nDisc,          \* id -> Disconnect events delivered
    last            \* the handler the worker ran in the last step, if any

vars == <<conns, table, m_lastConnId, posted, nCalls, acceptPc,
          acceptorOpen, m_isStopped, workerPc, stopPc, stopTodo, stopCur,
          nNew, nMsg, nDisc, last>>

Ids == 1..MaxConn

\* Opcodes of a complete valid frame, and the other results of a read.
DataOpcodes == {"Text", "Binary"}
OtherOpcodes == {"Continuation", "Ping", "Pong"}
Opcodes == DataOpcodes \cup OtherOpcodes \cup {"Close"}
RecvResults == Opcodes \cup {"Invalid", "error"}
SendResults == {"ok", "error"}

\* The frame sendFrame(Opcode::Close, {}) queues; data frames carry the
\* number of the Server.send call that made them.
CloseFrame == [opcode |-> "Close", seq |-> 0]

DataFrame(isBinary, n) ==
    [opcode |-> IF isBinary THEN "Binary" ELSE "Text", seq |-> n]

\* A Connection before its constructor body runs.
NewConn ==
    [m_isClosed |-> FALSE, m_isReading |-> FALSE, m_isSending |-> FALSE,
     m_sendQueue |-> <<>>,
     rdOps |-> <<>>,      \* outstanding async_read operations (results)
     wrOps |-> <<>>,      \* outstanding async_write operations (results)
     handed |-> <<>>,     \* frames given to async_write, with the socket state
     written |-> <<>>,    \* frames popped after a successful write
     closes |-> 0,        \* times the socket was cancelled / shut down / closed
     drops |-> 0]         \* Server.drop tasks that found this connection

\* socket.cancel / shutdown / close: pending operations complete with an error;
\* operations that already completed keep their result.
Abort(ops) ==
    [i \in DOMAIN ops |-> IF ops[i] = "pending" THEN "error" ELSE ops[i]]

\* An operation started on a socket: pending, or failed at once when closed.
StartOp(cn) == IF cn.m_isClosed THEN "error" ELSE "pending"

\* Connection::close, after the m_isClosed test.
CloseBody(cn) ==
    [cn EXCEPT !.m_isClosed = TRUE,
               !.closes = @ + 1,
               !.rdOps = Abort(@),
               !.wrOps = Abort(@)]

\* Connection::close without the test of m_isClosed.
CloseNoTest(cn) == CloseBody(cn)

\* Connection::close
Close(cn) == IF cn.m_isClosed THEN cn ELSE CloseBody(cn)

\* Connection::sendNext
SendNext(cn) ==
    [cn EXCEPT !.m_isSending = TRUE,
               !.wrOps = Append(@, StartOp(cn)),
               !.handed = Append(@, [frame |-> Head(cn.m_sendQueue),
                                     open |-> ~cn.m_isClosed])]

\* Connection::sendFrame that starts a write for every frame it queues.
SendFrameAlwaysStart(cn, frame) ==
    SendNext([cn EXCEPT !.m_sendQueue = Append(@, frame)])

\* Connection::sendFrame
SendFrame(cn, frame) ==
    LET q == [cn EXCEPT !.m_sendQueue = Append(@, frame)]
    IN  IF Len(q.m_sendQueue) = 1 THEN SendNext(q) ELSE q

\* Connection::beginRecvFrame that starts the read without setting the flag.
BeginRecvFrameNoFlag(cn) ==
    [cn EXCEPT !.rdOps = Append(@, StartOp(cn))]

\* Connection::beginRecvFrame
BeginRecvFrame(cn) ==
    [cn EXCEPT !.m_isReading = TRUE,
               !.rdOps = Append(@, StartOp(cn))]

\* ServerLogic::drop that erases without looking at the flags.
DropEraseAlways(cn) ==
    LET c1 == Close(cn)
    IN  [cn |-> c1,
         disconnect |-> ~cn.m_isClosed,
         erase |-> TRUE,
         message |-> FALSE]

\* ServerLogic::drop that delivers Disconnect on every call.
DropAlwaysNotify(cn) ==
    LET c1 == Close(cn)
    IN  [cn |-> c1,
         disconnect |-> TRUE,
         erase |-> ~c1.m_isReading /\ ~c1.m_isSending,
         message |-> FALSE]

\* ServerLogic::drop: the connection afterwards, whether Disconnect is
\* delivered, and whether the connection is erased from the table.
Drop(cn) ==
    LET c1 == Close(cn)
    IN  [cn |-> c1,
         disconnect |-> ~cn.m_isClosed,
         erase |-> ~c1.m_isReading /\ ~c1.m_isSending,
         message |-> FALSE]

\* A handler that returns without calling drop.
Keep(cn, msg) ==
    [cn |-> cn, disconnect |-> FALSE, erase |-> FALSE, message |-> msg]

\* ServerLogic::processFrame that delivers every frame it is given.
ProcessFrameAll(opcode) == opcode \in Opcodes

\* ServerLogic::processFrame: whether a Message event is delivered.
ProcessFrame(opcode) == opcode \in DataOpcodes

\* Connection::onSendComplete without the m_isClosed test.
OnSendCompleteNoClosedTest(cn, res) ==
    LET c0 == [cn EXCEPT !.m_isSending = FALSE, !.wrOps = Tail(@)]
    IN  IF res = "error" THEN Drop(c0)
        ELSE LET c1 == [c0 EXCEPT !.written = Append(@, Head(c0.m_sendQueue)),
                                  !.m_sendQueue = Tail(@)]
             IN  IF c1.m_sendQueue # <<>> THEN Keep(SendNext(c1), FALSE)
                 ELSE Keep(c1, FALSE)

\* Connection::onSendComplete that pops the frame before it looks at the
\* result of the write.
OnSendCompletePopFirst(cn, res) ==
    LET c0 == [cn EXCEPT !.m_isSending = FALSE, !.wrOps = Tail(@),
                         !.m_sendQueue = Tail(@)]
    IN  IF res = "error" THEN Drop(c0)
        ELSE IF ~c0.m_isClosed
        THEN LET c1 == [c0 EXCEPT !.written = Append(@, Head(cn.m_sendQueue))]
             IN  IF c1.m_sendQueue # <<>> THEN Keep(SendNext(c1), FALSE)
                 ELSE Keep(c1, FALSE)
        ELSE Drop(c0)

\* Connection::onSendComplete, for the result of the completed write.
OnSendComplete(cn, res) ==
    LET c0 == [cn EXCEPT !.m_isSending = FALSE, !.wrOps = Tail(@)]
    IN  IF res = "error" THEN Drop(c0)
        ELSE IF ~c0.m_isClosed
        THEN LET c1 == [c0 EXCEPT !.written = Append(@, Head(c0.m_sendQueue)),
                                  !.m_sendQueue = Tail(@)]
             IN  IF c1.m_sendQueue # <<>> THEN Keep(SendNext(c1), FALSE)
                 ELSE Keep(c1, FALSE)
        ELSE Drop(c0)

\* Connection::onRecvComplete without the isValidFrame test.
OnRecvCompleteNoValidation(cn, res) ==
    LET c0 == [cn EXCEPT !.m_isReading = FALSE, !.rdOps = Tail(@)]
    IN  IF res = "error" THEN Drop(c0)
        ELSE IF ~c0.m_isClosed
        THEN IF res = "Close"
             THEN Drop(SendFrame(c0, CloseFrame))
             ELSE Keep(BeginRecvFrame(c0), ProcessFrame(res))
        ELSE Drop(c0)

\* Connection::onRecvComplete without the m_isClosed test.
OnRecvCompleteNoClosedTest(cn, res) ==
    LET c0 == [cn EXCEPT !.m_isReading = FALSE, !.rdOps = Tail(@)]
    IN  IF res = "error" THEN Drop(c0)
        ELSE IF res # "Invalid"
        THEN IF res = "Close"
             THEN Drop(SendFrame(c0, CloseFrame))
             ELSE Keep(BeginRecvFrame(c0), ProcessFrame(res))
        ELSE Drop(c0)

\* Connection::onRecvComplete, for the result of the completed read.
OnRecvComplete(cn, res) ==
    LET c0 == [cn EXCEPT !.m_isReading = FALSE, !.rdOps = Tail(@)]
    IN  IF res = "error" THEN Drop(c0)
        ELSE IF ~c0.m_isClosed
        THEN IF res # "Invalid"
             THEN IF res = "Close"
                  THEN Drop(SendFrame(c0, CloseFrame))
                  ELSE Keep(BeginRecvFrame(c0), ProcessFrame(res))
             ELSE Drop(c0)
        ELSE Drop(c0)

\* ~Connection, run by ConnectionTable::erase: the send queue is freed.
Destroyed(cn) == [cn EXCEPT !.m_sendQueue = <<>>]

\* The effect of a handler's outcome r on connection c.
Commit(c, r) ==
    /\ conns' = [conns EXCEPT ![c] = IF r.erase THEN Destroyed(r.cn) ELSE r.cn]
    /\ table' = IF r.erase THEN table \ {c} ELSE table
    /\ nDisc' = [nDisc EXCEPT ![c] = @ + (IF r.disconnect THEN 1 ELSE 0)]
    /\ nMsg' = [nMsg EXCEPT ![c] = @ + (IF r.message THEN 1 ELSE 0)]

\* Message events delivered so far, over all connections.
RECURSIVE SumTo(_, _)
SumTo(f, n) == IF n = 0 THEN 0 ELSE f[n] + SumTo(f, n - 1)

Delivered == SumTo(nMsg, MaxConn)

\* No handler ran in the last step.
NoStep == [act |-> "none", id |-> 0, arg |-> "none"]

Init ==
    /\ conns = [c \in Ids |-> NewConn]
    /\ table = {}
    /\ m_lastConnId = 0
    /\ posted = <<>>
    /\ nCalls = 0
    /\ acceptPc = "accept"
    /\ acceptorOpen = TRUE
    /\ m_isStopped = FALSE
    /\ workerPc = "init"
    /\ stopPc = "idle"
    /\ stopTodo = {}
    /\ stopCur = 0
    /\ nNew = [c \in Ids |-> 0]
    /\ nMsg = [c \in Ids |-> 0]
    /\ nDisc = [c \in Ids |-> 0]
    /\ last = NoStep

----------------------------------------------------------------------------
\* The transport and the peers.

\* The peer sends a frame, or the connection breaks: the outstanding read
\* of c completes with res.
PeerSend(c, res) ==
    /\ c \in table
    /\ conns[c].rdOps # <<>>
    /\ Head(conns[c].rdOps) = "pending"
    /\ res \in DataOpcodes => Delivered < MaxMsg
    /\ conns' = [conns EXCEPT ![c].rdOps = <<res>> \o Tail(@)]
    /\ last' = NoStep
    /\ UNCHANGED <<table, m_lastConnId, posted, nCalls, acceptPc,
                   acceptorOpen, m_isStopped, workerPc, stopPc, stopTodo,
                   stopCur, nNew, nMsg, nDisc>>

\* The outstanding write of c completes with res.
WriteDone(c, res) ==
    /\ c \in table
    /\ conns[c].wrOps # <<>>
    /\ Head(conns[c].wrOps) = "pending"
    /\ conns' = [conns EXCEPT ![c].wrOps = <<res>> \o Tail(@)]
    /\ last' = NoStep
    /\ UNCHANGED <<table, m_lastConnId, posted, nCalls, acceptPc,
                   acceptorOpen, m_isStopped, workerPc, stopPc, stopTodo,
                   stopCur, nNew, nMsg, nDisc>>

----------------------------------------------------------------------------
\* The caller threads.

\* ServerImpl::send on a caller thread: posts the work.
SendCall(c, isBinary) ==
    /\ nCalls < MaxCalls
    /\ nCalls' = nCalls + 1
    /\ posted' = Append(posted, [op |-> "send", id |-> c,
                                 frame |-> DataFrame(isBinary, nCalls + 1)])
    /\ last' = NoStep
    /\ UNCHANGED <<conns, table, m_lastConnId, acceptPc, acceptorOpen,
                   m_isStopped, workerPc, stopPc, stopTodo, stopCur,
                   nNew, nMsg, nDisc>>

\* ServerImpl::drop on a caller thread: posts the work.
DropCall(c) ==
    /\ nCalls < MaxCalls
    /\ nCalls' = nCalls + 1
    /\ posted' = Append(posted, [op |-> "drop", id |-> c, frame |-> CloseFrame])
    /\ last' = NoStep
    /\ UNCHANGED <<conns, table, m_lastConnId, acceptPc, acceptorOpen,
                   m_isStopped, workerPc, stopPc, stopTodo, stopCur,
                   nNew, nMsg, nDisc>>

----------------------------------------------------------------------------
\* The thread that calls stop().

\* ServerImpl::stop, up to the call of closeAll.
StopCall ==
    /\ stopPc = "idle"
    /\ m_isStopped' = TRUE
    /\ acceptorOpen' = FALSE
    /\ stopPc' = "closeAll"
    /\ stopTodo' = table
    /\ last' = NoStep
    /\ UNCHANGED <<conns, table, m_lastConnId, posted, nCalls, acceptPc,
                   workerPc, stopCur, nNew, nMsg, nDisc>>

\* ConnectionTable::closeAll, one iteration: Connection::close reads m_isClosed.
StopCloseCheck(c) ==
    /\ stopPc = "closeAll"
    /\ stopCur = 0
    /\ c \in stopTodo
    /\ stopTodo' = stopTodo \ {c}
    /\ stopCur' = IF c \in table /\ ~conns[c].m_isClosed THEN c ELSE 0
    /\ last' = NoStep
    /\ UNCHANGED <<conns, table, m_lastConnId, posted, nCalls, acceptPc,
                   acceptorOpen, m_isStopped, workerPc, stopPc,
                   nNew, nMsg, nDisc>>

\* Variant of StopCloseDo: closeAll tells the application about each
\* connection it closes, on the thread that called stop().
StopCloseDoNotify ==
    /\ stopPc = "closeAll"
    /\ stopCur # 0
    /\ conns' = IF stopCur \in table
                THEN [conns EXCEPT ![stopCur] = CloseBody(@)]
                ELSE conns
    /\ nDisc' = IF stopCur \in table
                THEN [nDisc EXCEPT ![stopCur] = @ + 1]
                ELSE nDisc
    /\ stopCur' = 0
    /\ last' = NoStep
    /\ UNCHANGED <<table, m_lastConnId, posted, nCalls, acceptPc,
                   acceptorOpen, m_isStopped, workerPc, stopPc, stopTodo,
                   nNew, nMsg>>

\* ConnectionTable::closeAll, the same iteration: the rest of Connection::close.
StopCloseDo ==
    /\ stopPc = "closeAll"
    /\ stopCur # 0
    /\ conns' = IF stopCur \in table
                THEN [conns EXCEPT ![stopCur] = CloseBody(@)]
                ELSE conns
    /\ stopCur' = 0
    /\ last' = NoStep
    /\ UNCHANGED <<table, m_lastConnId, posted, nCalls, acceptPc,
                   acceptorOpen, m_isStopped, workerPc, stopPc, stopTodo,
                   nNew, nMsg, nDisc>>

\* closeAll returns; stop() goes on to m_workerThread->join().
StopCloseAllDone ==
    /\ stopPc = "closeAll"
    /\ stopCur = 0
    /\ stopTodo = {}
    /\ stopPc' = "join"
    /\ last' = NoStep
    /\ UNCHANGED <<conns, table, m_lastConnId, posted, nCalls, acceptPc,
                   acceptorOpen, m_isStopped, workerPc, stopTodo, stopCur,
                   nNew, nMsg, nDisc>>

\* m_workerThread->join() returns, and stop() with it.
StopJoin ==
    /\ stopPc = "join"
    /\ workerPc = "exited"
    /\ stopPc' = "done"
    /\ last' = NoStep
    /\ UNCHANGED <<conns, table, m_lastConnId, posted, nCalls, acceptPc,
                   acceptorOpen, m_isStopped, workerPc, stopTodo, stopCur,
                   nNew, nMsg, nDisc>>

----------------------------------------------------------------------------
\* The worker thread.

\* workerThread: the first test of its loop.
WorkerStart ==
    /\ workerPc = "init"
    /\ workerPc' = IF m_isStopped THEN "exited" ELSE "run"
    /\ last' = NoStep
    /\ UNCHANGED <<conns, table, m_lastConnId, posted, nCalls, acceptPc,
                   acceptorOpen, m_isStopped, stopPc, stopTodo, stopCur,
                   nNew, nMsg, nDisc>>

\* The io_service has no work left: no coroutine, no posted task, no operation.
IoIdle ==
    /\ acceptPc = "done"
    /\ posted = <<>>
    /\ \A c \in Ids : conns[c].rdOps = <<>> /\ conns[c].wrOps = <<>>

\* m_ioService.run() returns and the loop of workerThread ends.
WorkerExit ==
    /\ workerPc = "run"
    /\ IoIdle
    /\ m_isStopped
    /\ workerPc' = "exited"
    /\ last' = NoStep
    /\ UNCHANGED <<conns, table, m_lastConnId, posted, nCalls, acceptPc,
                   acceptorOpen, m_isStopped, stopPc, stopTodo, stopCur,
                   nNew, nMsg, nDisc>>

\* The completion handler of the read of c runs.
RecvComplete(c) ==
    /\ workerPc = "run"
    /\ c \in table
    /\ conns[c].rdOps # <<>>
    /\ Head(conns[c].rdOps) # "pending"
    /\ Commit(c, OnRecvComplete(conns[c], Head(conns[c].rdOps)))
    /\ last' = [act |-> "recv", id |-> c, arg |-> Head(conns[c].rdOps)]
    /\ UNCHANGED <<m_lastConnId, posted, nCalls, acceptPc, acceptorOpen,
                   m_isStopped, workerPc, stopPc, stopTodo, stopCur, nNew>>

\* The completion handler of the write of c runs.
SendComplete(c) ==
    /\ workerPc = "run"
    /\ c \in table
    /\ conns[c].wrOps # <<>>
    /\ Head(conns[c].wrOps) # "pending"
    /\ Commit(c, OnSendComplete(conns[c], Head(conns[c].wrOps)))
    /\ last' = [act |-> "sent", id |-> c, arg |-> Head(conns[c].wrOps)]
    /\ UNCHANGED <<m_lastConnId, posted, nCalls, acceptPc, acceptorOpen,
                   m_isStopped, workerPc, stopPc, stopTodo, stopCur, nNew>>

\* Variant of SendTask: the result of find is used without the test.
SendTaskNoFind(t) ==
    Commit(t.id, Keep(SendFrame(conns[t.id], t.frame), FALSE))

\* The lambda ServerImpl::send posted.
SendTask(t) ==
    IF t.id \in table
    THEN Commit(t.id, Keep(SendFrame(conns[t.id], t.frame), FALSE))
    ELSE UNCHANGED <<conns, table, nDisc, nMsg>>

\* The lambda ServerImpl::drop posted.
DropTask(t) ==
    IF t.id \in table
    THEN Commit(t.id, Drop([conns[t.id] EXCEPT !.drops = @ + 1]))
    ELSE UNCHANGED <<conns, table, nDisc, nMsg>>

\* Variant of RunTask: the worker is held by the handshake, as it would be
\* with blocking reads and writes in performHandshake.
RunTaskAfterHandshake ==
    /\ workerPc = "run"
    /\ acceptPc \in {"accept", "done"}
    /\ posted # <<>>
    /\ posted' = Tail(posted)
    /\ IF Head(posted).op = "send" THEN SendTask(Head(posted))
       ELSE DropTask(Head(posted))
    /\ last' = [act |-> Head(posted).op, id |-> Head(posted).id, arg |-> "task"]
    /\ UNCHANGED <<m_lastConnId, nCalls, acceptPc, acceptorOpen,
                   m_isStopped, workerPc, stopPc, stopTodo, stopCur, nNew>>

\* The worker runs the oldest posted task.
RunTask ==
    /\ workerPc = "run"
    /\ posted # <<>>
    /\ posted' = Tail(posted)
    /\ IF Head(posted).op = "send" THEN SendTask(Head(posted))
       ELSE DropTask(Head(posted))
    /\ last' = [act |-> Head(posted).op, id |-> Head(posted).id, arg |-> "task"]
    /\ UNCHANGED <<m_lastConnId, nCalls, acceptPc, acceptorOpen,
                   m_isStopped, workerPc, stopPc, stopTodo, stopCur, nNew>>

----------------------------------------------------------------------------
\* The accept coroutine, resumed by the worker.

\* acceptLoop: async_accept completes, with a socket (ok) or with an error.
AcceptComplete(ok) ==
    /\ workerPc = "run"
    /\ acceptPc = "accept"
    /\ ~acceptorOpen => ~ok
    /\ acceptPc' = IF m_isStopped THEN "done"
                   ELSE IF ok THEN "hsRead"
                   ELSE "accept"
    /\ last' = NoStep
    /\ UNCHANGED <<conns, table, m_lastConnId, posted, nCalls,
                   acceptorOpen, m_isStopped, workerPc, stopPc, stopTodo,
                   stopCur, nNew, nMsg, nDisc>>

\* performHandshake: async_read_until completes: with an error, or with a
\* request for which handshake() returns OK (valid) or another status.
\* The peers send at most MaxConn valid requests.
HsReadComplete(res) ==
    /\ workerPc = "run"
    /\ acceptPc = "hsRead"
    /\ res = "valid" => m_lastConnId < MaxConn
    /\ acceptPc' = CASE res = "error" -> "accept"
                     [] res = "valid" -> "hsWriteOK"
                     [] OTHER -> "hsWriteFail"
    /\ last' = NoStep
    /\ UNCHANGED <<conns, table, m_lastConnId, posted, nCalls,
                   acceptorOpen, m_isStopped, workerPc, stopPc, stopTodo,
                   stopCur, nNew, nMsg, nDisc>>

\* Variant of Add: the id is taken from the size of the table.
AddBySize(tbl, cs, lastId) ==
    [table |-> tbl \cup {Cardinality(tbl) + 1},
     conns |-> [cs EXCEPT ![Cardinality(tbl) + 1] = BeginRecvFrame(NewConn)],
     m_lastConnId |-> Cardinality(tbl) + 1]

\* ConnectionTable::add
Add(tbl, cs, lastId) ==
    [table |-> tbl \cup {lastId + 1},
     conns |-> [cs EXCEPT ![lastId + 1] = BeginRecvFrame(NewConn)],
     m_lastConnId |-> lastId + 1]

\* Variant of HsWriteComplete: the connection is registered whenever the
\* reply was written, whatever status handshake() returned.
HsWriteCompleteIgnoreStatus(ec, seen) ==
    /\ workerPc = "run"
    /\ acceptPc \in {"hsWriteOK", "hsWriteFail"}
    /\ acceptPc' = "accept"
    /\ IF ~ec
       THEN LET a == Add(table, conns, m_lastConnId)
            IN  /\ m_lastConnId < MaxConn
                /\ table' = a.table
                /\ conns' = a.conns
                /\ m_lastConnId' = a.m_lastConnId
                /\ nNew' = [nNew EXCEPT ![a.m_lastConnId] = @ + 1]
                /\ stopTodo' = IF stopPc = "closeAll" /\ seen
                               THEN stopTodo \cup {a.m_lastConnId}
                               ELSE stopTodo
       ELSE /\ ~seen
            /\ UNCHANGED <<table, conns, m_lastConnId, nNew, stopTodo>>
    /\ last' = NoStep
    /\ UNCHANGED <<posted, nCalls, acceptorOpen, m_isStopped, workerPc,
                   stopPc, stopCur, nMsg, nDisc>>

\* performHandshake: the write of the reply completes (ec: with an error);
\* onAccept registers the connection when performHandshake returned true.
\* A connection inserted while closeAll iterates may or may not be visited.
HsWriteComplete(ec, seen) ==
    /\ workerPc = "run"
    /\ acceptPc \in {"hsWriteOK", "hsWriteFail"}
    /\ acceptPc' = "accept"
    /\ IF acceptPc = "hsWriteOK" /\ ~ec
       THEN LET a == Add(table, conns, m_lastConnId)
            IN  /\ table' = a.table
                /\ conns' = a.conns
                /\ m_lastConnId' = a.m_lastConnId
                /\ nNew' = [nNew EXCEPT ![a.m_lastConnId] = @ + 1]
                /\ stopTodo' = IF stopPc = "closeAll" /\ seen
                               THEN stopTodo \cup {a.m_lastConnId}
                               ELSE stopTodo
       ELSE /\ ~seen
            /\ UNCHANGED <<table, conns, m_lastConnId, nNew, stopTodo>>
    /\ last' = NoStep
    /\ UNCHANGED <<posted, nCalls, acceptorOpen, m_isStopped, workerPc,
                   stopPc, stopCur, nMsg, nDisc>>

----------------------------------------------------------------------------
Next ==
    \/ \E c \in Ids, res \in RecvResults : PeerSend(c, res)
    \/ \E c \in Ids, res \in SendResults : WriteDone(c, res)
    \/ \E c \in Ids, isBinary \in BOOLEAN : SendCall(c, isBinary)
    \/ \E c \in Ids : DropCall(c)
    \/ StopCall
    \/ \E c \in Ids : StopCloseCheck(c)
    \/ StopCloseDo
    \/ StopCloseAllDone
    \/ StopJoin
    \/ WorkerStart
    \/ WorkerExit
    \/ \E c \in Ids : RecvComplete(c)
    \/ \E c \in Ids : SendComplete(c)
    \/ RunTask
    \/ \E ok \in BOOLEAN : AcceptComplete(ok)
    \/ \E res \in {"error", "valid", "invalid"} : HsReadComplete(res)
    \/ \E ec \in BOOLEAN, seen \in BOOLEAN : HsWriteComplete(ec, seen)

Spec == Init /\ [][Next]_vars

\* async_accept on the closed acceptor completes with an error.
AcceptAborted == ~acceptorOpen /\ AcceptComplete(FALSE)

\* The scheduling the code can rely on: the worker runs every ready handler
\* and every posted task, an outstanding write completes, an operation on a
\* closed socket or acceptor completes, and the thread in stop() runs on.
\* Nothing is assumed of the peers (PeerSend, the arrival of a connection or
\* of a handshake request) nor of the callers.
Fairness ==
    /\ WF_vars(WorkerStart)
    /\ WF_vars(WorkerExit)
    /\ WF_vars(RunTask)
    /\ \A c \in Ids : WF_vars(RecvComplete(c))
    /\ \A c \in Ids : WF_vars(SendComplete(c))
    /\ \A c \in Ids : WF_vars(\E res \in SendResults : WriteDone(c, res))
    /\ WF_vars(AcceptAborted)
    /\ WF_vars(\E ec \in BOOLEAN, seen \in BOOLEAN : HsWriteComplete(ec, seen))
    /\ WF_vars(\E c \in Ids : StopCloseCheck(c))
    /\ WF_vars(StopCloseDo)
    /\ WF_vars(StopCloseAllDone)
    /\ WF_vars(StopJoin)

FairSpec == Spec /\ Fairness

----------------------------------------------------------------------------
\* Connections that were registered and have been erased from the table.
Registered == 1..m_lastConnId
Erased == Registered \ table

\* C1: a Connection is erased from the table only when it is closed and has
\* neither a read nor a write outstanding (flags clear, no operation of the
\* transport left): every erased connection was in that state when erased.
C1_ErasedOnlyWhenRemovable ==
    \A c \in Erased :
        /\ conns[c].m_isClosed
        /\ ~conns[c].m_isReading
        /\ ~conns[c].m_isSending
        /\ conns[c].rdOps = <<>>
        /\ conns[c].wrOps = <<>>

\* A connection was erased after a write and a read had both been
\* outstanding on it when it was closed by a drop task.
C1_Witness ==
    \E c \in Erased :
        /\ conns[c].handed # <<>>
        /\ conns[c].written = <<>>
        /\ conns[c].drops >= 1
        /\ last.act = "recv"

\* C2: at most one Disconnect is delivered for a connection id, and only
\* after the NewConnection of that id.
C2_AtMostOneDisconnect ==
    \A c \in Ids :
        /\ nDisc[c] <= 1
        /\ nDisc[c] >= 1 => nNew[c] >= 1

\* A Disconnect was delivered and the drop path ran again afterwards: a drop
\* task found the closed connection, and a completion erased it.
C2_Witness ==
    \E c \in Erased :
        /\ nDisc[c] = 1
        /\ nNew[c] = 1
        /\ conns[c].drops >= 1
        /\ last.act \in {"recv", "sent"}

\* C3: every connection that was announced by NewConnection and is closed,
\* by whatever cause, has had its Disconnect delivered at that transition,
\* and no connection leaves the table without exactly one Disconnect.
C3_DisconnectAtEveryClose ==
    \A c \in Registered :
        /\ (nNew[c] >= 1 /\ conns[c].m_isClosed) => nDisc[c] = 1
        /\ c \in Erased => nDisc[c] = 1

\* C4: stop() returns from every state in which it is called, without any
\* further action of a peer.
C4_StopReturns == (stopPc # "idle") ~> (stopPc = "done")

\* C5: once stop() has been called no connection is added to the table and
\* no NewConnection event is emitted.
C5_NoAcceptAfterStop ==
    [][m_isStopped => (table' \subseteq table /\ nNew' = nNew)]_vars

\* A step of a caller thread (send, drop) or of the thread inside stop().
CallerStep ==
    \/ \E c \in Ids, isBinary \in BOOLEAN : SendCall(c, isBinary)
    \/ \E c \in Ids : DropCall(c)
    \/ StopCall
    \/ \E c \in Ids : StopCloseCheck(c)
    \/ StopCloseDo
    \/ StopCloseAllDone
    \/ StopJoin

\* C6: no step of a caller thread changes the state of a Connection or of
\* the table; send, drop and stop leave both to the worker.
C6_OnlyWorkerMutates ==
    [][CallerStep => UNCHANGED <<conns, table>>]_vars

\* The data frames (those of Server.send) given to the transport, in order.
HandedData(c) ==
    SelectSeq(conns[c].handed, LAMBDA h : h.frame.opcode # "Close")

\* Frame number n of Server.send waits in the posted work for connection c.
SendPosted(c, n) ==
    \E i \in DOMAIN posted :
        posted[i].op = "send" /\ posted[i].id = c /\ posted[i].frame.seq = n

\* Frame number n was written to the socket of c and popped from its queue.
Written(c, n) ==
    \E i \in DOMAIN conns[c].written : conns[c].written[i].seq = n

\* The frames of Server.send reach the transport in the order of the calls,
\* each at most once, with at most one write outstanding.
SendOrder ==
    \A c \in Ids :
        /\ \A i, j \in DOMAIN HandedData(c) :
               i < j => HandedData(c)[i].frame.seq < HandedData(c)[j].frame.seq
        /\ Len(conns[c].wrOps) <= 1

\* C7: the frames of successive Server.send calls for a connection are given
\* to the transport in the order of the calls, one at a time and each at
\* most once; a frame sent to an open connection is eventually written
\* unless the connection is closed (by an error, a drop or stop).
C7_SendsInOrder ==
    /\ []SendOrder
    /\ \A c \in Ids, n \in 1..MaxCalls :
           (SendPosted(c, n) /\ c \in table /\ ~conns[c].m_isClosed)
               ~> (conns[c].m_isClosed \/ Written(c, n))

\* A second Server.send ran while the write of the first was outstanding:
\* its frame waits in the queue behind the frame in flight.
C7_Witness ==
    \E c \in table :
        /\ last = [act |-> "send", id |-> c, arg |-> "task"]
        /\ Len(conns[c].m_sendQueue) = 2
        /\ conns[c].wrOps = <<"pending">>
        /\ Len(conns[c].handed) = 1
        /\ ~conns[c].m_isClosed

\* The Close frame of the server is in the send queue of c.
CloseQueued(c) ==
    \E i \in DOMAIN conns[c].m_sendQueue : conns[c].m_sendQueue[i] = CloseFrame

\* The Close frame of the server was given to the transport of c while the
\* socket was open.
CloseHandedOpen(c) ==
    \E i \in DOMAIN conns[c].handed :
        conns[c].handed[i] = [frame |-> CloseFrame, open |-> TRUE]

\* C8: when a valid Close frame of the peer was handled on an open
\* connection, the Close frame of the server was given to the transport
\* before the socket was closed, whatever the send queue held, and exactly
\* one Disconnect was delivered.
C8_CloseReplyBeforeTeardown ==
    \A c \in table :
        CloseQueued(c) => (CloseHandedOpen(c) /\ nDisc[c] = 1)

\* C9: a Server.drop task for an id that is not in the table changes nothing;
\* on a connection that is already closed it changes nothing, except that it
\* erases the connection when no operation is outstanding; on an open
\* connection it closes the socket once and delivers one Disconnect.  After
\* any number of drops (stop() not racing), the socket was closed once and
\* one Disconnect was delivered.
C9_DropIdempotent ==
    /\ [](\A c \in Ids :
            (conns[c].drops >= 1 /\ ~m_isStopped) =>
                (conns[c].closes = 1 /\ nDisc[c] = 1))
    /\ [][\A c \in Ids :
            (RunTask /\ Head(posted).op = "drop" /\ Head(posted).id = c) =>
                IF c \notin table
                THEN UNCHANGED <<conns, table, nNew, nMsg, nDisc>>
                ELSE IF conns[c].m_isClosed
                THEN /\ UNCHANGED <<nNew, nMsg, nDisc>>
                     /\ conns'[c].closes = conns[c].closes
                     /\ conns'[c].rdOps = conns[c].rdOps
                     /\ conns'[c].wrOps = conns[c].wrOps
                     /\ conns'[c].handed = conns[c].handed
                     /\ (c \notin table') <=>
                            (~conns[c].m_isReading /\ ~conns[c].m_isSending)
                ELSE /\ conns'[c].m_isClosed
                     /\ conns'[c].closes = conns[c].closes + 1
                     /\ nDisc'[c] = nDisc[c] + 1]_vars

\* Two Server.drop tasks ran on the same connection: it was closed once, one
\* Disconnect was delivered, and it has been erased.
C9_Witness ==
    \E c \in Erased :
        /\ conns[c].drops = 2
        /\ conns[c].closes = 1
        /\ nDisc[c] = 1

\* C10: when the read of an open connection completes with an invalid frame,
\* that step delivers no Message, queues no frame and starts no write, starts
\* no new read, closes the socket, delivers the Disconnect, and erases the
\* connection unless a write is outstanding.
C10_InvalidFrameDrops ==
    [][\A c \in Ids :
        (RecvComplete(c) /\ Head(conns[c].rdOps) = "Invalid"
                        /\ ~conns[c].m_isClosed) =>
            /\ nMsg' = nMsg
            /\ conns'[c].handed = conns[c].handed
            /\ Len(conns'[c].m_sendQueue) <= Len(conns[c].m_sendQueue)
            /\ conns'[c].rdOps = <<>>
            /\ ~conns'[c].m_isReading
            /\ conns'[c].m_isClosed
            /\ conns'[c].closes = conns[c].closes + 1
            /\ nDisc'[c] = nDisc[c] + 1
            /\ (c \notin table') <=> ~conns[c].m_isSending]_vars

\* An invalid frame was just handled on a connection that was open and had a
\* write outstanding: it is closed, its Disconnect is delivered, and it stays
\* in the table until the write completes.
C10_Witness ==
    \E c \in table :
        /\ last = [act |-> "recv", id |-> c, arg |-> "Invalid"]
        /\ conns[c].m_isSending
        /\ conns[c].drops = 0
        /\ stopPc = "idle"
        /\ conns[c].m_isClosed
        /\ nDisc[c] = 1


----------------------------------------------------------------------------
\* A step that registers a connection or delivers NewConnection.
Registers ==
    \/ m_lastConnId' # m_lastConnId
    \/ ~(table' \subseteq table)
    \/ nNew' # nNew

\* The registration of onAccept: the next id is inserted with a fresh
\* Connection and exactly one NewConnection is delivered for it.
RegisteredNext ==
    /\ m_lastConnId' = m_lastConnId + 1
    /\ table' = table \cup {m_lastConnId'}
    /\ nNew' = [nNew EXCEPT ![m_lastConnId'] = @ + 1]
    /\ conns' = [conns EXCEPT ![m_lastConnId'] = BeginRecvFrame(NewConn)]

NoRegistration ==
    UNCHANGED <<conns, table, m_lastConnId, nNew, nMsg, nDisc>>

\* An id that was never registered has no Connection and no event.
C11_UnregisteredSilent ==
    \A c \in Ids :
        /\ c \in Registered <=> nNew[c] = 1
        /\ c \notin Registered =>
               /\ nNew[c] = 0 /\ nMsg[c] = 0 /\ nDisc[c] = 0
               /\ conns[c] = NewConn

C11_Step ==
    \* registration happens only when the reply to an OK handshake was written
    /\ Registers => (acceptPc = "hsWriteOK" /\ acceptPc' = "accept"
                     /\ RegisteredNext)
    \* ... and always then
    /\ (acceptPc = "hsWriteOK"
        /\ \E seen \in BOOLEAN : HsWriteComplete(FALSE, seen)) => RegisteredNext
    \* read failure, reply write failure, status other than OK
    /\ HsReadComplete("error") => (NoRegistration /\ acceptPc' = "accept")
    /\ (\E seen \in BOOLEAN : HsWriteComplete(TRUE, seen)) => NoRegistration
    /\ (acceptPc = "hsWriteFail"
        /\ \E ec, seen \in BOOLEAN : HsWriteComplete(ec, seen)) => NoRegistration
    \* a status other than OK: the reply is written before the socket goes
    /\ HsReadComplete("invalid") => (NoRegistration /\ acceptPc' = "hsWriteFail")
    /\ (acceptPc = "hsWriteFail" /\ acceptPc' # acceptPc)
           => \E ec, seen \in BOOLEAN : HsWriteComplete(ec, seen)

\* C11: NewConnection is delivered and a Connection is registered if and
\* only if the handshake succeeded.  When the handshake read fails, the
\* status is not OK, or the write of the reply fails, nothing is registered
\* and no event is delivered for the socket; with a status other than OK the
\* reply is still written before the socket is given up.
C11_RegisteredIffHandshakeOK ==
    [](C11_UnregisteredSilent) /\ [][C11_Step]_vars

\* The reply to a request with a status other than OK is being written while
\* nothing has been registered; a worker step has run since the accept.
C11_Witness ==
    /\ acceptPc = "hsWriteFail"
    /\ m_lastConnId = 0 /\ table = {}
    /\ \A c \in Ids : nNew[c] = 0 /\ nMsg[c] = 0 /\ nDisc[c] = 0

----------------------------------------------------------------------------
\* A step in which the application callback is invoked.
CallbackInvoked == nNew' # nNew \/ nMsg' # nMsg \/ nDisc' # nDisc

\* C12: the application callback is invoked only by steps of the worker
\* thread: no step of a send, drop or stop call on a caller thread invokes
\* it, and it is not invoked after stop() has returned.
C12_CallbackOnWorkerOnly ==
    [][/\ CallerStep => ~CallbackInvoked
       /\ stopPc = "done" => ~CallbackInvoked
       /\ CallbackInvoked => workerPc = "run" /\ workerPc' = "run"]_vars

\* stop() has returned after a connection was accepted, delivered a message
\* and was disconnected by the worker.
C12_Witness ==
    /\ stopPc = "done"
    /\ \E c \in Ids : nNew[c] = 1 /\ nMsg[c] = 1 /\ nDisc[c] = 1

----------------------------------------------------------------------------
\* The ConnectionTable on its own: any sequence of add and erase.
MaxAdd == 6

TableIds == 1..MaxAdd

TableInit ==
    /\ conns = [c \in TableIds |-> NewConn]
    /\ table = {}
    /\ m_lastConnId = 0
    /\ posted = <<>>
    /\ nCalls = 0
    /\ acceptPc = "accept"
    /\ acceptorOpen = TRUE
    /\ m_isStopped = FALSE
    /\ workerPc = "run"
    /\ stopPc = "idle"
    /\ stopTodo = {}
    /\ stopCur = 0
    /\ nNew = [c \in TableIds |-> 0]
    /\ nMsg = [c \in TableIds |-> 0]
    /\ nDisc = [c \in TableIds |-> 0]
    /\ last = NoStep

\* ConnectionTable::add, called by onAccept, which reports the id.
TableAdd ==
    /\ m_lastConnId < MaxAdd
    /\ LET a == Add(table, conns, m_lastConnId)
       IN  /\ table' = a.table
           /\ conns' = a.conns
           /\ m_lastConnId' = a.m_lastConnId
           /\ nNew' = [nNew EXCEPT ![a.m_lastConnId] = @ + 1]
    /\ UNCHANGED <<posted, nCalls, acceptPc, acceptorOpen, m_isStopped,
                   workerPc, stopPc, stopTodo, stopCur, nMsg, nDisc, last>>

\* ConnectionTable::erase
TableErase(c) ==
    /\ c \in table
    /\ table' = table \ {c}
    /\ conns' = [conns EXCEPT ![c] = Destroyed(@)]
    /\ UNCHANGED <<m_lastConnId, posted, nCalls, acceptPc, acceptorOpen,
                   m_isStopped, workerPc, stopPc, stopTodo, stopCur,
                   nNew, nMsg, nDisc, last>>

TableNext == TableAdd \/ \E c \in TableIds : TableErase(c)

TableSpec == TableInit /\ [][TableNext]_vars

\* The ids handed out so far are exactly 1..m_lastConnId, each once.
IdsHandedOut ==
    /\ table \subseteq 1..m_lastConnId
    /\ \A c \in TableIds : nNew[c] = (IF c <= m_lastConnId THEN 1 ELSE 0)

\* C13: the ids handed out by ConnectionTable::add are strictly increasing
\* and none is handed out twice, after any sequence of add and erase.
C13_IdsIncreasing ==
    /\ [](IdsHandedOut)
    /\ [][/\ m_lastConnId' >= m_lastConnId
          /\ \A c \in TableIds :
                 nNew'[c] # nNew[c] =>
                     /\ c > m_lastConnId /\ c = m_lastConnId'
                     /\ \A d \in TableIds : nNew[d] > 0 => d < c
                     /\ table' = table \cup {c}]_vars

\* Ids were handed out after earlier ones had been erased.
C13_Witness ==
    /\ m_lastConnId >= 3
    /\ table = {m_lastConnId}
    /\ nNew[1] = 1 /\ nNew[m_lastConnId] = 1

----------------------------------------------------------------------------
\* C14: a posted send or drop for an id that is not in the table (never
\* handed out, or already erased) does nothing: the table and every
\* Connection stay as they are, no operation is started and no event is
\* delivered.
C14_UnknownIdNoOp ==
    [][(RunTask /\ Head(posted).id \notin table) =>
           UNCHANGED <<conns, table, m_lastConnId, nNew, nMsg, nDisc>>]_vars

\* A send task has just run for an id that had been erased before.
C14_Witness ==
    /\ last.act = "send"
    /\ last.id \in Erased
    /\ conns[last.id].handed = <<>>

----------------------------------------------------------------------------
\* A closed connection is in the table only while an operation of it is
\* outstanding.
ClosedHasWork ==
    \A c \in table :
        conns[c].m_isClosed => (conns[c].m_isReading \/ conns[c].m_isSending)

\* A completion on a closed connection takes the drop path: no event is
\* delivered, no operation is started, and the connection is erased exactly
\* when the other flag is clear as well.
ClosedCompletionDrops ==
    \A c \in Ids :
        ((RecvComplete(c) \/ SendComplete(c)) /\ conns[c].m_isClosed) =>
            /\ nMsg' = nMsg /\ nDisc' = nDisc
            /\ conns'[c].handed = conns[c].handed
            /\ Len(conns'[c].rdOps) + Len(conns'[c].wrOps)
                   = Len(conns[c].rdOps) + Len(conns[c].wrOps) - 1
            /\ c \notin table' <=>
                   (~conns'[c].m_isReading /\ ~conns'[c].m_isSending)

\* C15: every connection that becomes closed is erased in the end, given
\* that its outstanding operations complete: a completion on a closed
\* connection takes the drop path and the last one erases.  No closed
\* connection with both flags clear stays in the table, also when a send
\* task queues a frame on a closed connection that is still registered.
C15_ClosedEventuallyErased ==
    /\ [](ClosedHasWork)
    /\ [][ClosedCompletionDrops]_vars
    /\ \A c \in Ids :
           (c \in table /\ conns[c].m_isClosed) ~> (c \notin table)

\* A connection has been erased on which a write had been started while it
\* was closed and still registered.
C15_Witness ==
    \E c \in Erased :
        /\ conns[c].m_isClosed
        /\ \E i \in 1..Len(conns[c].handed) : ~conns[c].handed[i].open

----------------------------------------------------------------------------
\* C16: a connection has at most one read and at most one write outstanding;
\* m_isReading holds exactly while a read is outstanding and m_isSending
\* exactly while a write is; a write is outstanding only while the send
\* queue is not empty; between the steps of the worker every registered
\* connection that is not closed has exactly one read outstanding.
C16_OneReadOneWrite ==
    \A c \in Ids :
        /\ Len(conns[c].rdOps) <= 1
        /\ Len(conns[c].wrOps) <= 1
        /\ conns[c].m_isReading <=> conns[c].rdOps # <<>>
        /\ conns[c].m_isSending <=> conns[c].wrOps # <<>>
        /\ conns[c].wrOps # <<>> => conns[c].m_sendQueue # <<>>
        /\ (c \in table /\ ~conns[c].m_isClosed) => Len(conns[c].rdOps) = 1

\* An open connection with its read and one write outstanding while a
\* second frame waits in the queue.
C16_Witness ==
    \E c \in table :
        /\ ~conns[c].m_isClosed
        /\ conns[c].m_isReading /\ conns[c].m_isSending
        /\ Len(conns[c].rdOps) = 1 /\ Len(conns[c].wrOps) = 1
        /\ Len(conns[c].m_sendQueue) = 2

----------------------------------------------------------------------------
\* The completion of the write of c, when the connection is closed or the
\* write failed: the drop path, whatever the queue holds; no write is started
\* and no frame leaves the queue of a connection that stays registered.
SendCompleteDrops(c) ==
    LET cn == conns[c] IN
    /\ conns'[c].handed = cn.handed
    /\ conns'[c].written = cn.written
    /\ conns'[c].wrOps = <<>> /\ ~conns'[c].m_isSending
    /\ conns'[c].m_isClosed
    /\ nDisc'[c] = nDisc[c] + (IF cn.m_isClosed THEN 0 ELSE 1)
    /\ c \notin table' <=> ~cn.m_isReading
    /\ c \in table' => conns'[c].m_sendQueue = cn.m_sendQueue

\* The completion of a successful write of c on a connection that is not
\* closed: the frame that was written leaves the front of the queue, and the
\* next write is started exactly when the queue is not empty then.
SendCompletePops(c) ==
    LET cn == conns[c] IN
    /\ Head(cn.m_sendQueue) = cn.handed[Len(cn.handed)].frame
    /\ conns'[c].m_sendQueue = Tail(cn.m_sendQueue)
    /\ conns'[c].written = Append(cn.written, Head(cn.m_sendQueue))
    /\ IF Tail(cn.m_sendQueue) # <<>>
       THEN /\ conns'[c].handed =
                   Append(cn.handed, [frame |-> Head(Tail(cn.m_sendQueue)),
                                      open |-> TRUE])
            /\ conns'[c].wrOps = <<"pending">> /\ conns'[c].m_isSending
       ELSE /\ conns'[c].handed = cn.handed
            /\ conns'[c].wrOps = <<>> /\ ~conns'[c].m_isSending
    /\ c \in table' /\ ~conns'[c].m_isClosed
    /\ nDisc' = nDisc

\* The queue q is still the beginning of the queue r.
IsPrefix(q, r) ==
    /\ Len(q) <= Len(r)
    /\ \A i \in 1..Len(q) : q[i] = r[i]

\* C17: when a write completes on a closed connection or with an error, the
\* drop path is taken whatever the queue holds and no write is started;
\* otherwise exactly the written frame is popped from the front and the next
\* write is started if and only if the queue is still not empty.  A frame
\* leaves the queue of a registered connection only after it was written
\* successfully on a connection that is not closed.
C17_WriteCompletion ==
    [][\A c \in Ids :
        /\ SendComplete(c) =>
               IF conns[c].m_isClosed \/ Head(conns[c].wrOps) = "error"
               THEN SendCompleteDrops(c)
               ELSE SendCompletePops(c)
        /\ (c \in table'
            /\ ~IsPrefix(conns[c].m_sendQueue, conns'[c].m_sendQueue))
               => /\ SendComplete(c)
                  /\ Head(conns[c].wrOps) = "ok" /\ ~conns[c].m_isClosed
                  /\ conns'[c].m_sendQueue = Tail(conns[c].m_sendQueue)]_vars

\* A write has just completed on an open connection: its frame was popped
\* and the write of the next frame was started.
C17_Witness ==
    /\ last.act = "sent" /\ last.arg = "ok"
    /\ last.id \in table
    /\ ~conns[last.id].m_isClosed
    /\ Len(conns[last.id].written) = 1
    /\ Len(conns[last.id].handed) = 2
    /\ conns[last.id].wrOps = <<"pending">>

----------------------------------------------------------------------------
\* The read of c completed and its handler went on to the next frame: the
\* connection stays registered and open, nothing is queued or written, no
\* Disconnect is delivered and one new read is outstanding.
ReadsOn(c) ==
    /\ c \in table'
    /\ ~conns'[c].m_isClosed /\ conns'[c].closes = conns[c].closes
    /\ conns'[c].m_sendQueue = conns[c].m_sendQueue
    /\ conns'[c].handed = conns[c].handed
    /\ conns'[c].wrOps = conns[c].wrOps
    /\ conns'[c].m_isReading /\ conns'[c].rdOps = <<"pending">>
    /\ nDisc' = nDisc

\* C18: a valid frame with opcode Continuation, Ping or Pong is ignored: no
\* event, no reply, no close or drop, and a new read is started.  A valid
\* Text or Binary frame on a connection that is not closed delivers exactly
\* one Message event, and a new read is started.
C18_NonDataIgnored ==
    [][\A c \in Ids :
        (RecvComplete(c) /\ ~conns[c].m_isClosed) =>
            /\ Head(conns[c].rdOps) \in OtherOpcodes =>
                   (ReadsOn(c) /\ nMsg' = nMsg)
            /\ Head(conns[c].rdOps) \in DataOpcodes =>
                   (ReadsOn(c) /\ nMsg' = [nMsg EXCEPT ![c] = @ + 1])]_vars

\* A Ping, Pong or Continuation frame has just been ignored on a connection
\* that had delivered a Message before.
C18_Witness ==
    /\ last.act = "recv" /\ last.arg \in OtherOpcodes
    /\ last.id \in table
    /\ ~conns[last.id].m_isClosed
    /\ conns[last.id].rdOps = <<"pending">>
    /\ nMsg[last.id] = 1 /\ nDisc[last.id] = 0

----------------------------------------------------------------------------
\* The events delivered for c so far are a prefix of
\* NewConnection, Message*, Disconnect.
EventPrefix(c) ==
    /\ nNew[c] <= 1 /\ nDisc[c] <= 1
    /\ (nMsg[c] > 0 \/ nDisc[c] > 0) => nNew[c] = 1

\* A step delivers at most one event for c, and none after Disconnect.
EventStep(c) ==
    /\ (nNew'[c] - nNew[c]) + (nMsg'[c] - nMsg[c]) + (nDisc'[c] - nDisc[c])
           \in {0, 1}
    /\ nNew'[c] >= nNew[c] /\ nMsg'[c] >= nMsg[c] /\ nDisc'[c] >= nDisc[c]
    /\ nDisc[c] = 1 =>
           (nNew'[c] = nNew[c] /\ nMsg'[c] = nMsg[c] /\ nDisc'[c] = nDisc[c])

\* C19: for every id the events delivered form a prefix of NewConnection,
\* Message*, Disconnect: no Message before NewConnection, although the first
\* read is started inside add, and no Message after Disconnect, also when a
\* read that was outstanding at the close completes with a valid frame.
C19_EventOrder ==
    /\ [](\A c \in Ids : EventPrefix(c))
    /\ [][\A c \in Ids : EventStep(c)]_vars

\* The read of a disconnected connection has just completed with a valid
\* data frame, and no Message was delivered.
C19_Witness ==
    /\ last.act = "recv" /\ last.arg \in DataOpcodes
    /\ nNew[last.id] = 1 /\ nDisc[last.id] = 1 /\ nMsg[last.id] = 0

----------------------------------------------------------------------------
\* The accept coroutine is inside performHandshake, waiting for the peer.
InHandshake == acceptPc \in {"hsRead", "hsWriteOK", "hsWriteFail"}

\* The accept coroutine waits for async_accept.
AcceptOutstanding == acceptPc = "accept"

\* The running worker is not held by a handshake: a posted task and a
\* completed read or write of a registered connection can run.
WorkerFreeInHandshake ==
    (InHandshake /\ workerPc = "run") =>
        /\ posted # <<>> => ENABLED RunTask
        /\ \A c \in table :
               /\ (conns[c].rdOps # <<>> /\ Head(conns[c].rdOps) # "pending")
                      => ENABLED RecvComplete(c)
               /\ (conns[c].wrOps # <<>> /\ Head(conns[c].wrOps) # "pending")
                      => ENABLED SendComplete(c)

\* A handshake begins only with the completion of the accept, which issues
\* no new accept; the next accept is issued only by the end of the handshake.
AcceptThenHandshake ==
    /\ (~InHandshake /\ InHandshake') =>
           (AcceptOutstanding /\ AcceptComplete(TRUE) /\ acceptPc' = "hsRead")
    /\ (InHandshake /\ ~InHandshake') =>
           /\ AcceptOutstanding'
           /\ \/ HsReadComplete("error")
              \/ \E ec, seen \in BOOLEAN : HsWriteComplete(ec, seen)
    /\ (InHandshake /\ InHandshake' /\ acceptPc' # acceptPc) =>
           (acceptPc = "hsRead" /\ \E res \in {"valid", "invalid"} :
                                       HsReadComplete(res))

\* C20: handshakes are serialized with accepting: a handshake begins when the
\* accept completes, no accept is outstanding while it is in progress, and
\* the next accept is issued only when it has finished.  While the handshake
\* waits for the network the worker still runs the completions and the
\* posted send and drop tasks of the registered connections.
C20_HandshakeSerialized ==
    /\ [](WorkerFreeInHandshake)
    /\ [][AcceptThenHandshake]_vars

\* A handler of a registered connection has just run while the handshake of
\* another socket was waiting for its request.
C20_Witness ==
    /\ acceptPc = "hsRead"
    /\ last.act \in {"recv", "sent", "send", "drop"}
    /\ last.id \in Registered
====
